---------------------------- MODULE Spec2Model ----------------------------
(***************************************************************************)
(* The tile request lifecycle of osgEarth's VersionedTerrain.cpp           *)
(* (src/unnamed/part_000): one VersionedTile, its VersionedTerrain, the    *)
(* lazily created TaskService, the worker threads that execute the tile's  *)
(* layer requests and the progress callbacks that cancel stale ones.       *)
(*                                                                         *)
(* Objects live in heaps: reqs[id] is a TaskRequest, mons[id] a            *)
(* TileRequestProgressCallback, services[id] a TaskService; 0 is the null  *)
(* pointer. Layer data is an integer tag: 0 is no layer, -1 the layer the  *)
(* tile was built with, m > 0 the payload the factory produced in the      *)
(* execution attempt that was watched by progress callback m.              *)
(* Priorities are kept in tenths (3.1 is 31).                              *)
(***************************************************************************)
EXTENDS Integers, Sequences, FiniteSets, TLC

VARIABLES
    tile,       \* the VersionedTile's fields
    reqs,       \* heap of TaskRequest objects, in creation order
    mons,       \* heap of TileRequestProgressCallback objects
    terrain,    \* the VersionedTerrain's fields
    services,   \* heap of TaskService objects
    stamp,      \* the update-cycle counter TaskService::getStamp() returns
    workers,    \* the task service's worker threads
    thr,        \* application threads inside VersionedTerrain methods
    mutex,      \* holder of VersionedTerrain::_taskServiceMutex, 0 if free
    serviced    \* servicePendingRequests has run in the current update cycle

vars == <<tile, reqs, mons, terrain, services, stamp, workers, thr, mutex,
          serviced>>

-----------------------------------------------------------------------------
(* Bounds of the model *)

MaxColorLayers == 2
MaxStamp == 3
NumWorkers == 2
NumThreads == 2
MaxLevel == 3
MaxRevision == 2

(* Program constants *)

StaleThreshold == 2
DefaultNumThreads == 8

Workers == 1..NumWorkers
Threads == 1..NumThreads

\* an upper limit on the objects ever allocated (never reached by the code:
\* a tile creates its requests once)
MaxRequests == 2 * (MaxColorLayers + 1)

-----------------------------------------------------------------------------
(* TaskRequest: state predicates *)

isIdle(r) == r.state = "IDLE"
isCompleted(r) == r.state = "COMPLETED"
isCanceled(r) == r.state = "CANCELED"
isElevLayerRequest(r) == r.kind = "elev"
isColorLayerRequest(r) == r.kind = "color"

\* W is the part of the state the consumer thread's handlers work on, and
\* the calls of EarthTerrainTechnique::updateContent a handler makes, with
\* their arguments.
World == [tile |-> tile, reqs |-> reqs, mons |-> mons,
          terrain |-> terrain, services |-> services,
          updateContent |-> <<>>]

-----------------------------------------------------------------------------
(* VersionedTerrain::getOrCreateTaskService, called by one thread with no  *)
(* other thread inside it: both checks and the construction in one step.   *)

getOrCreateTaskService(W) ==
    IF W.terrain.taskService = 0
    THEN [W EXCEPT
            !.services = Append(@, [numThreads |-> W.terrain.numTaskServiceThreads,
                                    queue |-> <<>>]),
            !.terrain.taskService = Len(W.services) + 1]
    ELSE W

\* TaskService::add: the request joins the queue and is in flight from then on.
TaskServiceAdd(W, id) ==
    LET s == W.terrain.taskService IN
    [W EXCEPT !.services[s].queue = Append(@, id),
              !.reqs[id].state = "IN_PROGRESS"]

\* new TileRequestProgressCallback(r, service), installed by setProgressCallback
NewProgressCallback(W, id) ==
    LET W1 == getOrCreateTaskService(W) IN
    [W1 EXCEPT !.mons = Append(@, [request |-> id,
                                   service |-> W1.terrain.taskService,
                                   canceled |-> FALSE]),
               !.reqs[id].progress = Len(W1.mons) + 1]

\* reportProgress with the threshold compared by >= instead of >
reportProgress_Ge(ms, rs, st, m) ==
    IF ms[m].canceled
    THEN [mons |-> ms, ret |-> TRUE]
    ELSE LET c == (st - rs[ms[m].request].stamp >= StaleThreshold) IN
         [mons |-> [ms EXCEPT ![m].canceled = c], ret |-> c]

\* reportProgress without the early return of line 44
reportProgress_NoLatch(ms, rs, st, m) ==
    LET c == (st - rs[ms[m].request].stamp > StaleThreshold) IN
    [mons |-> [ms EXCEPT ![m].canceled = c], ret |-> c]

\* TileRequestProgressCallback::reportProgress: the new callback heap and
\* the value returned.
reportProgress(ms, rs, st, m) ==
    IF ms[m].canceled
    THEN [mons |-> ms, ret |-> TRUE]
    ELSE LET c == (st - rs[ms[m].request].stamp > StaleThreshold) IN
         [mons |-> [ms EXCEPT ![m].canceled = c], ret |-> c]

-----------------------------------------------------------------------------
(* VersionedTile::servicePendingRequests *)

ElevPriority(level) == 10 * level

\* the color priority with the layer index added whole, not as a tenth
ColorPriority_Whole(level, layerIndex) == 10 * level + 10 * layerIndex

ColorPriority(level, layerIndex) == 10 * level + layerIndex

NewRequest(kind, layerIndex, priority, st) ==
    [kind |-> kind, layerIndex |-> layerIndex, priority |-> priority,
     stamp |-> st, state |-> "IDLE", result |-> 0, progress |-> 0]

\* one request created, given its callback and pushed on _requests
PushRequest(W, r) ==
    LET id == Len(W.reqs) + 1
        W1 == [W EXCEPT !.reqs = Append(@, r)]
        W2 == NewProgressCallback(W1, id)
    IN [W2 EXCEPT !.tile.requests = Append(@, id)]

RECURSIVE PushColorRequests(_, _, _)
PushColorRequests(W, layerIndex, st) ==
    IF layerIndex < Len(W.tile.colorLayers)
    THEN PushColorRequests(
            PushRequest(W, NewRequest("color", layerIndex,
                                      ColorPriority(W.tile.level, layerIndex), st)),
            layerIndex + 1, st)
    ELSE W

\* InstallRequests without line 212
InstallRequests_NoFlag(W, st) ==
    IF ~W.tile.requestsInstalled
    THEN IF W.terrain.layerFactory
         THEN LET We == IF W.tile.elevationLayer # 0 /\ W.tile.requestElevation
                        THEN PushRequest(W,
                               NewRequest("elev", -1,
                                          ElevPriority(W.tile.level), st))
                        ELSE W
              IN PushColorRequests(We, 0, st)
         ELSE W
    ELSE W

\* lines 190-213
InstallRequests(W, st) ==
    IF ~W.tile.requestsInstalled
    THEN LET W1 == IF W.terrain.layerFactory
                   THEN LET We == IF W.tile.elevationLayer # 0 /\ W.tile.requestElevation
                                  THEN PushRequest(W,
                                         NewRequest("elev", -1,
                                                    ElevPriority(W.tile.level), st))
                                  ELSE W
                        IN PushColorRequests(We, 0, st)
                   ELSE W
         IN [W1 EXCEPT !.tile.requestsInstalled = TRUE]
    ELSE W

\* ServiceOne with the test of line 224 widened to every request that is
\* not completed
ServiceOne_Resubmit(W, id, st) ==
    IF ~isCompleted(W.reqs[id])
    THEN TaskServiceAdd(getOrCreateTaskService([W EXCEPT !.reqs[id].stamp = st]), id)
    ELSE W

\* ServiceOne leaving a request that is in progress as it is
ServiceOne_NoRefresh(W, id, st) ==
    IF isIdle(W.reqs[id])
    THEN TaskServiceAdd(getOrCreateTaskService([W EXCEPT !.reqs[id].stamp = st]), id)
    ELSE W

\* lines 224-236, one request of the loop
ServiceOne(W, id, st) ==
    IF isIdle(W.reqs[id])
    THEN TaskServiceAdd(getOrCreateTaskService([W EXCEPT !.reqs[id].stamp = st]), id)
    ELSE IF ~isCompleted(W.reqs[id])
         THEN [W EXCEPT !.reqs[id].stamp = st]
         ELSE W

RECURSIVE ServiceLoop(_, _, _)
ServiceLoop(W, i, st) ==
    IF i <= Len(W.tile.requests)
    THEN ServiceLoop(ServiceOne(W, W.tile.requests[i], st), i + 1, st)
    ELSE W

servicePendingRequests(W, st) ==
    LET W1 == InstallRequests(W, st) IN
    IF W1.tile.requestsInstalled THEN ServiceLoop(W1, 1, st) ELSE W1

-----------------------------------------------------------------------------
(* VersionedTile::serviceCompletedRequests *)

RemoveAt(s, i) == SubSeq(s, 1, i - 1) \o SubSeq(s, i + 1, Len(s))

\* what is left of a request once the last reference to it is dropped
FreedRequest ==
    [kind |-> "freed", layerIndex |-> -1, priority |-> 0,
     stamp |-> 0, state |-> "FREED", result |-> 0, progress |-> 0]

\* EraseRequest marking the tile for a new installation of its requests
EraseRequest_Reinstall(W, i) ==
    [W EXCEPT !.reqs[W.tile.requests[i]] = FreedRequest,
              !.tile.requests = RemoveAt(@, i),
              !.tile.requestsInstalled = FALSE]

\* line 279: _requests.erase(i) drops the tile's reference, the last one
EraseRequest(W, i) ==
    [W EXCEPT !.reqs[W.tile.requests[i]] = FreedRequest,
              !.tile.requests = RemoveAt(@, i)]

\* MergeResult without the test for a result: an absent result is installed
\* and flagged like a payload
MergeResult_NoResultTest(W, id) ==
    LET r == W.reqs[id]
        W1 == IF isElevLayerRequest(r)
              THEN [W EXCEPT !.tile.elevationLayer = r.result]
              ELSE [W EXCEPT !.tile.colorLayers[r.layerIndex + 1] = r.result]
    IN IF W.tile.usePerLayerUpdates
       THEN IF isElevLayerRequest(r)
            THEN [W1 EXCEPT !.tile.elevationLayerDirty = TRUE]
            ELSE [W1 EXCEPT !.tile.colorLayersDirty = TRUE]
       ELSE [W1 EXCEPT !.tile.dirty = TRUE]

\* lines 252-277: merge the result of a completed request into the tile
MergeResult(W, id) ==
    LET r == W.reqs[id] IN
    IF r.result = 0 THEN W
    ELSE LET W1 == IF isElevLayerRequest(r)
                   THEN [W EXCEPT !.tile.elevationLayer = r.result]
                   ELSE [W EXCEPT !.tile.colorLayers[r.layerIndex + 1] = r.result]
         IN IF W.tile.usePerLayerUpdates
            THEN IF isElevLayerRequest(r)
                 THEN [W1 EXCEPT !.tile.elevationLayerDirty = TRUE]
                 ELSE [W1 EXCEPT !.tile.colorLayersDirty = TRUE]
            ELSE [W1 EXCEPT !.tile.dirty = TRUE]

\* lines 249-280: a completed request is merged and erased
HarvestCompleted(W, i) == EraseRequest(MergeResult(W, W.tile.requests[i]), i)

\* HarvestCanceled merging what the cancelled request holds before the reset
HarvestCanceled_Merge(W, id) ==
    NewProgressCallback([MergeResult(W, id) EXCEPT !.reqs[id].state = "IDLE"], id)

\* HarvestCanceled resetting the state and leaving the cancelled callback on
HarvestCanceled_KeepCallback(W, id) == [W EXCEPT !.reqs[id].state = "IDLE"]

\* lines 281-286: a cancelled request is reset to IDLE with a new callback
HarvestCanceled(W, id) ==
    NewProgressCallback([W EXCEPT !.reqs[id].state = "IDLE"], id)

\* the loop of lines 245-291, at position i of _requests; only the last
\* branch advances i
RECURSIVE HarvestLoop(_, _)
HarvestLoop(W, i) ==
    IF i > Len(W.tile.requests) THEN W
    ELSE LET id == W.tile.requests[i] IN
         IF isCompleted(W.reqs[id])
         THEN HarvestLoop(HarvestCompleted(W, i), i)
         ELSE IF isCanceled(W.reqs[id])
              THEN HarvestLoop(HarvestCanceled(W, id), i)
              ELSE HarvestLoop(W, i + 1)

serviceCompletedRequests(W) == HarvestLoop(W, 1)

-----------------------------------------------------------------------------
(* VersionedTile::traverse *)

\* osgTerrain::TerrainTile::traverse: a dirty tile regenerates
BaseTraverse(W) == [W EXCEPT !.tile.dirty = FALSE]

\* TraverseBefore with the partial update tested for on its own, after the
\* whole-tile test and not instead of it
TraverseBefore_NoElse(W) ==
    LET W1 == serviceCompletedRequests(W)
        W2 == IF W1.tile.dirty
              THEN [W1 EXCEPT !.tile.elevationLayerDirty = TRUE,
                              !.tile.colorLayersDirty = TRUE]
              ELSE W1
    IN IF W2.tile.elevationLayerDirty \/ W2.tile.colorLayersDirty
       THEN [W2 EXCEPT !.updateContent =
                Append(@, <<W2.tile.elevationLayerDirty, W2.tile.colorLayersDirty>>)]
       ELSE W2

\* TraverseBefore without the test of the whole-tile dirty flag
TraverseBefore_NoDirtyTest(W) ==
    LET W1 == serviceCompletedRequests(W) IN
    IF W1.tile.elevationLayerDirty \/ W1.tile.colorLayersDirty
    THEN [W1 EXCEPT !.updateContent =
             Append(@, <<W1.tile.elevationLayerDirty, W1.tile.colorLayersDirty>>)]
    ELSE W1

\* lines 299-315; line 313 hands both flags to the terrain technique
TraverseBefore(W) ==
    LET W1 == serviceCompletedRequests(W) IN
    IF W1.tile.dirty
    THEN [W1 EXCEPT !.tile.elevationLayerDirty = TRUE,
                    !.tile.colorLayersDirty = TRUE]
    ELSE IF W1.tile.elevationLayerDirty \/ W1.tile.colorLayersDirty
         THEN [W1 EXCEPT !.updateContent =
                  Append(@, <<W1.tile.elevationLayerDirty, W1.tile.colorLayersDirty>>)]
         ELSE W1

\* TraverseAfter bumping the geometry revision once for each dirty flag
TraverseAfter_PerFlag(W) ==
    LET e == IF W.tile.elevationLayerDirty THEN 1 ELSE 0
        c == IF W.tile.colorLayersDirty THEN 1 ELSE 0
    IN [W EXCEPT !.tile.geometryRevision = @ + e + c,
                 !.tile.elevationLayerDirty = FALSE,
                 !.tile.colorLayersDirty = FALSE]

\* TraverseAfter clearing the elevation flag only
TraverseAfter_KeepColor(W) ==
    LET W1 == IF W.tile.elevationLayerDirty
              THEN [W EXCEPT !.tile.geometryRevision = @ + 1]
              ELSE W
    IN [W1 EXCEPT !.tile.elevationLayerDirty = FALSE]

\* lines 320-328
TraverseAfter(W) ==
    LET W1 == IF W.tile.elevationLayerDirty
              THEN [W EXCEPT !.tile.geometryRevision = @ + 1]
              ELSE W
    IN [W1 EXCEPT !.tile.elevationLayerDirty = FALSE,
                  !.tile.colorLayersDirty = FALSE]

\* traverse servicing the requests whatever the visitor's type
traverse_AnyVisitor(W, visitorType) ==
    LET serviceRequests == W.tile.useLayerRequests
        W1 == IF serviceRequests THEN TraverseBefore(W) ELSE W
        W2 == BaseTraverse(W1)
    IN IF serviceRequests THEN TraverseAfter(W2) ELSE W2

traverse(W, visitorType) ==
    LET serviceRequests == W.tile.useLayerRequests /\ visitorType = "UPDATE"
        W1 == IF serviceRequests THEN TraverseBefore(W) ELSE W
        W2 == BaseTraverse(W1)
    IN IF serviceRequests THEN TraverseAfter(W2) ELSE W2

-----------------------------------------------------------------------------
(* VersionedTile::~VersionedTile *)

\* TaskRequest::cancel: the request's progress callback is cancelled, so
\* that every poll of it returns cancelled and the attempt ends Canceled
TaskRequestCancel(W, id) ==
    [W EXCEPT !.mons[W.reqs[id].progress].canceled = TRUE]

\* the loop of lines 114-121 from position i of _requests, that cancels a
\* request only if it is in progress
RECURSIVE CancelLoop_InProgressOnly(_, _)
CancelLoop_InProgressOnly(W, i) ==
    IF i > Len(W.tile.requests) THEN W
    ELSE LET id == W.tile.requests[i] IN
         CancelLoop_InProgressOnly(
            IF W.reqs[id].state = "IN_PROGRESS"
            THEN TaskRequestCancel(W, id) ELSE W, i + 1)

\* the loop of lines 114-121 from position i of _requests: the test of line
\* 116 guards a notice only, every request is cancelled
RECURSIVE CancelLoop(_, _)
CancelLoop(W, i) ==
    IF i > Len(W.tile.requests) THEN W
    ELSE CancelLoop(TaskRequestCancel(W, W.tile.requests[i]), i + 1)

\* lines 107-123, and then the members go: the tile's references to its
\* requests are dropped (a request lives on while the task service or a
\* worker holds it)
Destructor(W) ==
    LET W1 == IF W.tile.requestsInstalled THEN CancelLoop(W, 1) ELSE W
    IN [W1 EXCEPT !.tile.alive = FALSE, !.tile.requests = <<>>]

-----------------------------------------------------------------------------
(* Initial state: the terrain constructed, the tile constructed, configured *)
(* (setUseLayerRequests, the update mode, its layers) and attached.         *)
(* _requestElevation is not set by the constructor: it holds either value,  *)
(* as it does after setHasElevationHint.                                    *)

IdleWorker == [pc |-> "idle", request |-> 0, progress |-> 0]
IdleThread == [pc |-> "idle", ret |-> 0, local |-> 0]

\* lines 334-345: env is what getenv("OSGEARTH_NUM_TASK_SERVICE_THREADS")
\* yields, <<>> when the variable is not set, else <<n>> with n what atoi
\* makes of it
NewVersionedTerrain(factory, env) ==
    [layerFactory |-> factory,
     revision |-> 0,
     numTaskServiceThreads |-> IF env = <<>> THEN DefaultNumThreads ELSE env[1],
     taskService |-> 0]

InitEnv(env) ==
    /\ \E useLayerRequests \in BOOLEAN, requestElevation \in BOOLEAN,
          hasElevation \in BOOLEAN, usePerLayerUpdates \in BOOLEAN,
          n \in 0..MaxColorLayers :
         tile = [alive |-> TRUE,
                 level |-> MaxLevel,
                 useLayerRequests |-> useLayerRequests,
                 terrainRevision |-> -1,
                 tileRevision |-> 0,
                 geometryRevision |-> 0,
                 requestsInstalled |-> FALSE,
                 requests |-> <<>>,
                 elevationLayerDirty |-> FALSE,
                 colorLayersDirty |-> FALSE,
                 usePerLayerUpdates |-> usePerLayerUpdates,
                 requestElevation |-> requestElevation,
                 dirty |-> FALSE,
                 elevationLayer |-> IF hasElevation THEN -1 ELSE 0,
                 colorLayers |-> [i \in 1..n |-> -1]]
    /\ reqs = <<>>
    /\ mons = <<>>
    /\ \E factory \in BOOLEAN : terrain = NewVersionedTerrain(factory, env)
    /\ services = <<>>
    /\ stamp = 0
    /\ workers = [w \in Workers |-> IdleWorker]
    /\ thr = [t \in Threads |-> IdleThread]
    /\ mutex = 0
    /\ serviced = FALSE

\* the environment variable not set
Init == InitEnv(<<>>)

-----------------------------------------------------------------------------
(* Actions of the consumer thread *)

SetWorld(W) ==
    /\ tile' = W.tile
    /\ reqs' = W.reqs
    /\ mons' = W.mons
    /\ terrain' = W.terrain
    /\ services' = W.services

\* the caller passes the number of the current update cycle, the stamp the
\* task service holds
ServicePending ==
    /\ tile.alive
    /\ Len(reqs) + MaxColorLayers + 1 <= MaxRequests
    /\ SetWorld(servicePendingRequests(World, stamp))
    /\ serviced' = TRUE
    /\ UNCHANGED <<stamp, workers, thr, mutex>>

Traverse ==
    /\ tile.alive
    /\ \E visitorType \in {"UPDATE", "CULL"} :
         SetWorld(traverse(World, visitorType))
    /\ UNCHANGED <<stamp, workers, thr, mutex, serviced>>

\* a new update cycle: the task service's stamp moves on
AdvanceStamp ==
    /\ stamp < MaxStamp
    /\ stamp' = stamp + 1
    /\ serviced' = FALSE
    /\ UNCHANGED <<tile, reqs, mons, terrain, services, workers, thr, mutex>>

-----------------------------------------------------------------------------
(* Actions of the task service's worker threads *)

\* a worker takes a queued request, any one (priority is a hint to the
\* service), and calls it with its progress callback; the workers are alike
\* and the idle one of lowest index takes
WorkerTake(w) ==
    /\ workers[w].pc = "idle"
    /\ \A v \in Workers : v < w => workers[v].pc # "idle"
    /\ terrain.taskService # 0
    /\ LET s == terrain.taskService IN
       \E i \in DOMAIN services[s].queue :
         LET id == services[s].queue[i] IN
         /\ services' = [services EXCEPT ![s].queue = RemoveAt(@, i)]
         /\ workers' = [workers EXCEPT ![w] =
                          [pc |-> "running", request |-> id,
                           progress |-> reqs[id].progress]]
    /\ UNCHANGED <<tile, reqs, mons, terrain, stamp, thr, mutex, serviced>>

\* the factory polls the progress callback it was given
WorkerPoll(w) ==
    /\ workers[w].pc = "running"
    /\ mons' = reportProgress(mons, reqs, stamp, workers[w].progress).mons
    /\ UNCHANGED <<tile, reqs, terrain, services, stamp, workers, thr, mutex, serviced>>

\* operator() installing what the factory returned in the tile as well
RequestCall_IntoTile(W, id, created) ==
    MergeResult([W EXCEPT !.reqs[id].result = created], id)

\* TileColorLayerRequest / TileElevationLayerRequest operator() (lines 71-74,
\* 83-86): what the factory returned, a payload or nothing, is stored in the
\* request's _result
RequestCall(W, id, created) == [W EXCEPT !.reqs[id].result = created]

\* the worker's call of the request returns, the factory having produced a
\* payload or nothing, whether or not it was told to cancel; the task ends
\* Canceled if its callback was cancelled, else Completed
WorkerFinish(w) ==
    /\ workers[w].pc = "running"
    /\ \E produced \in BOOLEAN :
         LET id == workers[w].request
             m == workers[w].progress
             W1 == RequestCall(World, id, IF produced THEN m ELSE 0)
         IN SetWorld([W1 EXCEPT !.reqs[id].state =
                         IF mons[m].canceled THEN "CANCELED" ELSE "COMPLETED"])
    /\ workers' = [workers EXCEPT ![w] = IdleWorker]
    /\ UNCHANGED <<stamp, thr, mutex, serviced>>

-----------------------------------------------------------------------------

Next ==
    \/ ServicePending
    \/ Traverse
    \/ AdvanceStamp
    \/ \E w \in Workers : WorkerTake(w)
    \/ \E w \in Workers : WorkerPoll(w)
    \/ \E w \in Workers : WorkerFinish(w)

Spec == Init /\ [][Next]_vars

-----------------------------------------------------------------------------
(* The tile's lifetime: the quadtree may drop the tile at any time; the     *)
(* task service and its workers go on.                                      *)

Destroy ==
    /\ tile.alive
    /\ SetWorld(Destructor(World))
    /\ UNCHANGED <<stamp, workers, thr, mutex, serviced>>

NextLifetime ==
    \/ Next
    \/ Destroy

SpecLifetime == Init /\ [][NextLifetime]_vars

-----------------------------------------------------------------------------
(* The tile is serviced in every update cycle: the next cycle begins only   *)
(* after servicePendingRequests has run in this one.                        *)

AdvanceStampServiced ==
    /\ serviced
    /\ AdvanceStamp

NextEveryCycle ==
    \/ ServicePending
    \/ Traverse
    \/ AdvanceStampServiced
    \/ \E w \in Workers : WorkerTake(w)
    \/ \E w \in Workers : WorkerPoll(w)
    \/ \E w \in Workers : WorkerFinish(w)

SpecEveryCycle == Init /\ [][NextEveryCycle]_vars

-----------------------------------------------------------------------------
(* Fair scheduling: the consumer thread goes on servicing and traversing    *)
(* the live tile, a worker that can take a request does, and every factory  *)
(* call returns. The cycle counter is bounded, so that from its last value  *)
(* on the tile is harvested and serviced in every cycle there is; in the    *)
(* cycles before, the tile may have been neglected and requests cancelled.  *)

\* a tile with request servicing enabled, an elevation layer and one color
\* layer, and a terrain with a factory
InitServicing ==
    /\ Init
    /\ tile.useLayerRequests
    /\ tile.requestElevation
    /\ tile.elevationLayer # 0
    /\ Len(tile.colorLayers) = 1
    /\ terrain.layerFactory

Fairness ==
    /\ WF_vars(ServicePending)
    /\ WF_vars(Traverse)
    /\ \A w \in Workers : WF_vars(WorkerTake(w))
    /\ \A w \in Workers : WF_vars(WorkerFinish(w))

SpecFair == InitServicing /\ [][Next]_vars /\ Fairness

-----------------------------------------------------------------------------
(* The terrain's revision, with one caller at a time *)

\* VersionedTerrain::incrementRevision
IncrementRevision ==
    /\ terrain.revision < MaxRevision
    /\ terrain' = [terrain EXCEPT !.revision = @ + 1]
    /\ UNCHANGED <<tile, reqs, mons, services, stamp, workers, thr, mutex, serviced>>

\* VersionedTile::setTerrainRevision, called with the terrain's revision
\* when the tile's data is (re)built from the current map
SetTerrainRevision ==
    /\ tile.terrainRevision # terrain.revision
    /\ tile' = [tile EXCEPT !.terrainRevision = terrain.revision]
    /\ UNCHANGED <<reqs, mons, terrain, services, stamp, workers, thr, mutex, serviced>>

\* VersionedTerrain::getRevision
getRevision(W) == W.terrain.revision

\* VersionedTile::isInSyncWithTerrain
isInSyncWithTerrain(W) == W.tile.terrainRevision = W.terrain.revision

\* one tile with an elevation layer and one color layer, requests serviced
InitRevision ==
    /\ Init
    /\ tile.useLayerRequests
    /\ tile.requestElevation
    /\ tile.elevationLayer # 0
    /\ Len(tile.colorLayers) = 1
    /\ terrain.layerFactory

NextRevision ==
    \/ Next
    \/ IncrementRevision
    \/ SetTerrainRevision

SpecRevision == InitRevision /\ [][NextRevision]_vars

-----------------------------------------------------------------------------
(* Application threads calling the terrain concurrently.                    *)
(* getOrCreateTaskService (lines 404-417) is taken a statement at a time.   *)

\* line 407: _taskService is read without the lock while line 413 may be
\* writing it: the read yields the pointer stored, or the null it held before
UnlockedReads(p) == IF p = 0 THEN {0} ELSE {0, p}

\* the second check left out: the lock is taken and the service constructed
RecheckValid_Never(p) == FALSE

\* line 411: the check repeated under the lock
RecheckValid(p) == p # 0

\* the values setNumTaskServiceThreads is called with
NumThreadsChoices == {DefaultNumThreads, DefaultNumThreads \div 2}

\* what the environment holds when the terrain is constructed
EnvChoices == {<<>>, <<DefaultNumThreads \div 4>>}

InitTerrain == \E env \in EnvChoices : InitEnv(env)

TSCall(t) ==
    /\ thr[t].pc = "idle"
    /\ thr' = [thr EXCEPT ![t].pc = "check"]
    /\ UNCHANGED <<tile, reqs, mons, terrain, services, stamp, workers, mutex, serviced>>

TSCheck(t) ==
    /\ thr[t].pc = "check"
    /\ \E seen \in UnlockedReads(terrain.taskService) :
         thr' = [thr EXCEPT ![t].pc = IF seen # 0 THEN "return" ELSE "lock"]
    /\ UNCHANGED <<tile, reqs, mons, terrain, services, stamp, workers, mutex, serviced>>

TSLock(t) ==
    /\ thr[t].pc = "lock"
    /\ mutex = 0
    /\ mutex' = t
    /\ thr' = [thr EXCEPT ![t].pc = "recheck"]
    /\ UNCHANGED <<tile, reqs, mons, terrain, services, stamp, workers, serviced>>

TSRecheck(t) ==
    /\ thr[t].pc = "recheck"
    /\ thr' = [thr EXCEPT ![t].pc = IF RecheckValid(terrain.taskService)
                                    THEN "unlock" ELSE "create"]
    /\ UNCHANGED <<tile, reqs, mons, terrain, services, stamp, workers, mutex, serviced>>

\* line 413
TSCreate(t) ==
    /\ thr[t].pc = "create"
    /\ Len(services) < NumThreads + 1     \* a cap the code never reaches
    /\ services' = Append(services, [numThreads |-> terrain.numTaskServiceThreads,
                                     queue |-> <<>>])
    /\ terrain' = [terrain EXCEPT !.taskService = Len(services) + 1]
    /\ thr' = [thr EXCEPT ![t].pc = "unlock"]
    /\ UNCHANGED <<tile, reqs, mons, stamp, workers, mutex, serviced>>

TSUnlock(t) ==
    /\ thr[t].pc = "unlock"
    /\ mutex' = 0
    /\ thr' = [thr EXCEPT ![t].pc = "return"]
    /\ UNCHANGED <<tile, reqs, mons, terrain, services, stamp, workers, serviced>>

\* line 416
TSReturn(t) ==
    /\ thr[t].pc = "return"
    /\ thr' = [thr EXCEPT ![t].pc = "idle", ![t].ret = terrain.taskService]
    /\ UNCHANGED <<tile, reqs, mons, terrain, services, stamp, workers, mutex, serviced>>

\* line 351, _revision++ on a plain int: the read ...
IncRead(t) ==
    /\ thr[t].pc = "idle"
    /\ terrain.revision < MaxRevision
    /\ thr' = [thr EXCEPT ![t].pc = "incWrite", ![t].local = terrain.revision]
    /\ UNCHANGED <<tile, reqs, mons, terrain, services, stamp, workers, mutex, serviced>>

\* ... and the write
IncWrite(t) ==
    /\ thr[t].pc = "incWrite"
    /\ terrain' = [terrain EXCEPT !.revision = thr[t].local + 1]
    /\ thr' = [thr EXCEPT ![t].pc = "idle", ![t].local = 0]
    /\ UNCHANGED <<tile, reqs, mons, services, stamp, workers, mutex, serviced>>

\* setNumTaskServiceThreads resizing the task service that exists
SetNumTaskServiceThreads_Resize(t) ==
    /\ thr[t].pc = "idle"
    /\ \E n \in NumThreadsChoices :
         /\ terrain' = [terrain EXCEPT !.numTaskServiceThreads = n]
         /\ services' = [s \in DOMAIN services |->
                           [services[s] EXCEPT !.numThreads = n]]
    /\ UNCHANGED <<tile, reqs, mons, stamp, workers, thr, mutex, serviced>>

\* VersionedTerrain::setNumTaskServiceThreads
SetNumTaskServiceThreads(t) ==
    /\ thr[t].pc = "idle"
    /\ \E n \in NumThreadsChoices :
         terrain' = [terrain EXCEPT !.numTaskServiceThreads = n]
    /\ UNCHANGED <<tile, reqs, mons, services, stamp, workers, thr, mutex, serviced>>

NextTerrain ==
    \/ \E t \in Threads : TSCall(t)
    \/ \E t \in Threads : TSCheck(t)
    \/ \E t \in Threads : TSLock(t)
    \/ \E t \in Threads : TSRecheck(t)
    \/ \E t \in Threads : TSCreate(t)
    \/ \E t \in Threads : TSUnlock(t)
    \/ \E t \in Threads : TSReturn(t)
    \/ \E t \in Threads : IncRead(t)
    \/ \E t \in Threads : IncWrite(t)
    \/ \E t \in Threads : SetNumTaskServiceThreads(t)

SpecTerrain == InitTerrain /\ [][NextTerrain]_vars

-----------------------------------------------------------------------------
(* Properties *)

\* the queue of the terrain's task service
Queue == IF terrain.taskService = 0 THEN <<>>
         ELSE services[terrain.taskService].queue

Occurrences(q, id) == Cardinality({i \in DOMAIN q : q[i] = id})

\* positions of the tile's collection holding a request for one layer
RequestsFor(kind, layerIndex) ==
    {i \in DOMAIN tile.requests :
        /\ reqs[tile.requests[i]].kind = kind
        /\ reqs[tile.requests[i]].layerIndex = layerIndex}

\* the requests of the heap that were destroyed by a harvest
Freed == {id \in DOMAIN reqs : reqs[id] = FreedRequest}

\* request id had a callback before its present one: it was cancelled and
\* reset by a harvest
WasReset(id) == \E m \in DOMAIN mons : mons[m].request = id /\ m < reqs[id].progress

\* C1: the tile's request collection never holds two requests for the
\* elevation layer nor two requests for the same color layer index.
C1_AtMostOneRequestPerLayer ==
    /\ Cardinality(RequestsFor("elev", -1)) <= 1
    /\ \A layerIndex \in 0..(MaxColorLayers - 1) :
         Cardinality(RequestsFor("color", layerIndex)) <= 1

\* reached after an install, worker steps and a harvest that removed one
\* request and reset another
C1_Witness ==
    /\ tile.requestsInstalled
    /\ Freed # {}
    /\ \E i \in DOMAIN tile.requests : WasReset(tile.requests[i])
    /\ RequestsFor("elev", -1) # {}

\* C2: a step puts a request on the task service's queue only if the
\* request was Idle before the step (or is created by it); a Canceled
\* request next becomes Idle and nothing else, a Completed request is
\* only ever destroyed.
C2_SubmitOnlyIdle ==
    [][\A id \in DOMAIN reqs :
         /\ Occurrences(Queue', id) > Occurrences(Queue, id) => isIdle(reqs[id])
         /\ isCanceled(reqs[id]) => reqs'[id].state \in {"CANCELED", "IDLE"}
         /\ isCompleted(reqs[id]) => reqs'[id].state \in {"COMPLETED", "FREED"}
      ]_vars

\* a request that was cancelled, reset by harvest and submitted again,
\* beside one that completed and was harvested
C2_Witness ==
    /\ \E id \in DOMAIN reqs :
         /\ WasReset(id)
         /\ reqs[id].state = "IN_PROGRESS"
         /\ Occurrences(Queue, id) = 1
    /\ Freed # {}

\* C3: a second servicePendingRequests with no harvest in between leaves
\* the collection as the first call left it and creates no request.
C3_InstallIdempotent ==
    LET W1 == servicePendingRequests(World, stamp)
        W2 == servicePendingRequests(W1, stamp)
    IN /\ W2.tile.requests = W1.tile.requests
       /\ Len(W2.reqs) = Len(W1.reqs)

\* a tile on which servicePendingRequests has run and nothing was harvested,
\* so that this call is the second one
C3_Witness ==
    /\ tile.requestsInstalled
    /\ Len(tile.requests) = MaxColorLayers + 1
    /\ Freed = {}
    /\ \A id \in DOMAIN reqs : reqs[id].stamp = stamp /\ ~WasReset(id)

\* the callbacks that can still be polled: those of the tile's requests
LiveCallbacks == {reqs[tile.requests[i]].progress : i \in DOMAIN tile.requests}

Lag(m) == stamp - reqs[mons[m].request].stamp

\* C4: a poll of a callback that is not yet cancelled returns cancelled
\* exactly when the lag is greater than 2: never at 0, 1 or 2, always from 3.
C4_CancelIffLagOver2 ==
    \A m \in LiveCallbacks :
      ~mons[m].canceled =>
        LET p == reportProgress(mons, reqs, stamp, m) IN
        /\ Lag(m) \in {0, 1, 2} => ~p.ret
        /\ Lag(m) >= 3 => p.ret
        /\ p.ret <=> (Lag(m) > 2)
        /\ p.mons[m].canceled = p.ret

\* a worker's poll at lag 3 has cancelled the callback
C4_Witness ==
    \E w \in Workers :
      /\ workers[w].pc = "running"
      /\ mons[workers[w].progress].canceled
      /\ Lag(workers[w].progress) = 3

\* C5: a cancelled callback stays cancelled, and a poll of it returns
\* cancelled, whatever the request's stamp is by then.
C5_CancelLatched ==
    [][\A m \in DOMAIN mons :
         mons[m].canceled =>
           /\ reportProgress(mons, reqs, stamp, m).ret
           /\ mons'[m].canceled
           /\ reportProgress(mons', reqs', stamp', m).ret
      ]_vars

\* the request's stamp was refreshed after its callback cancelled, while
\* the worker is still running and polling
C5_Witness ==
    \E w \in Workers :
      /\ workers[w].pc = "running"
      /\ mons[workers[w].progress].canceled
      /\ Lag(workers[w].progress) <= 2

\* the payloads installed in the tile's layers
Installed ==
    {tile.elevationLayer} \cup {tile.colorLayers[i] : i \in DOMAIN tile.colorLayers}

\* C6: no layer of the tile holds the payload of an execution attempt
\* whose callback was cancelled.
C6_NoCancelledResultInstalled ==
    \A m \in Installed : m > 0 => ~mons[m].canceled

\* harvest met a cancelled request that holds a payload: it reset the request
\* and installed nothing
C6_Witness ==
    \E id \in DOMAIN reqs :
      /\ reqs[id].state = "IDLE"
      /\ reqs[id].result > 0
      /\ mons[reqs[id].result].canceled
      /\ reqs[id].result \notin Installed

\* C7: an update pass of a tile whose requests are installed and whose
\* terrain revision is one behind the terrain's leaves the tile in sync or
\* with its requests to be installed again.
C7_UpdatePassReconciles ==
    (/\ tile.useLayerRequests
     /\ tile.requestsInstalled
     /\ terrain.revision >= 1
     /\ tile.terrainRevision = terrain.revision - 1)
    => LET W1 == traverse(World, "UPDATE") IN
       \/ isInSyncWithTerrain(W1)
       \/ ~W1.tile.requestsInstalled

\* C8: at most one task service is ever constructed, and every caller of
\* getOrCreateTaskService that has returned holds that one.
C8_OneTaskService ==
    /\ Len(services) <= 1
    /\ \A t \in Threads :
         thr[t].ret # 0 => Len(services) = 1 /\ thr[t].ret = terrain.taskService

\* two first callers raced: one constructed the service and returned it, the
\* other had seen no service and now holds the lock for the second check
C8_Witness ==
    \E t1, t2 \in Threads :
      /\ t1 # t2
      /\ thr[t1].ret # 0
      /\ thr[t2].pc = "recheck"
      /\ thr[t2].ret = 0
      /\ terrain.taskService # 0

\* the requests servicePendingRequests is to create: kind, layer, priority
ExpectedRequests(level, n, withElevation) ==
    (IF withElevation
     THEN <<[kind |-> "elev", layerIndex |-> -1, priority |-> 10 * level]>>
     ELSE <<>>)
    \o [i \in 1..n |-> [kind |-> "color", layerIndex |-> i - 1,
                        priority |-> 10 * level + (i - 1)]]

Created(W) ==
    [i \in DOMAIN W.tile.requests |->
        LET r == W.reqs[W.tile.requests[i]] IN
        [kind |-> r.kind, layerIndex |-> r.layerIndex, priority |-> r.priority]]

\* C9: with a factory, the first servicePendingRequests creates the
\* elevation request (if the tile has an elevation layer and the hint) and
\* then one request for each color layer in index order, with priority L and
\* L + 0.1 i; at level 3 with two color layers: 3.0, 3.0, 3.1.
C9_FirstInstall ==
    (~tile.requestsInstalled /\ terrain.layerFactory) =>
      LET W1 == servicePendingRequests(World, stamp)
          n == Len(tile.colorLayers)
          withElevation == tile.elevationLayer # 0 /\ tile.requestElevation
          created == Created(W1)
      IN /\ created = ExpectedRequests(tile.level, n, withElevation)
         /\ Len(created) = IF withElevation THEN n + 1 ELSE n
         /\ Len(W1.reqs) = Len(created)
         /\ (tile.level = 3 /\ n = 2 /\ withElevation) =>
               [i \in 1..3 |-> created[i].priority] = <<30, 30, 31>>

\* the first servicePendingRequests has run on a tile with elevation and
\* two color layers
C9_Witness ==
    /\ tile.requestsInstalled
    /\ Len(tile.colorLayers) = 2
    /\ Len(tile.requests) = 3
    /\ Freed = {}
    /\ [i \in 1..3 |-> reqs[tile.requests[i]].kind] = <<"elev", "color", "color">>
    /\ [i \in 1..3 |-> reqs[tile.requests[i]].priority]
          = <<10 * tile.level, 10 * tile.level, 10 * tile.level + 1>>

\* C10: on a tile with request servicing enabled, an update pass that finds
\* the elevation request and every other request of the collection Completed
\* with a result empties the collection and raises the geometry revision by
\* exactly 1.
C10_AllCompletedPass ==
    (/\ tile.useLayerRequests
     /\ RequestsFor("elev", -1) # {}
     /\ \A i \in DOMAIN tile.requests :
          /\ isCompleted(reqs[tile.requests[i]])
          /\ reqs[tile.requests[i]].result # 0)
    => LET W1 == traverse(World, "UPDATE") IN
       /\ W1.tile.requests = <<>>
       /\ W1.tile.geometryRevision = tile.geometryRevision + 1

\* C10 as first stated, for any tile: an UPDATE traversal that finds the
\* elevation request and every other request Completed with a result empties
\* the collection and raises the geometry revision by exactly 1.
C10_AnyUpdatePass ==
    (/\ RequestsFor("elev", -1) # {}
     /\ \A i \in DOMAIN tile.requests :
          /\ isCompleted(reqs[tile.requests[i]])
          /\ reqs[tile.requests[i]].result # 0)
    => LET W1 == traverse(World, "UPDATE") IN
       /\ W1.tile.requests = <<>>
       /\ W1.tile.geometryRevision = tile.geometryRevision + 1

\* elevation and two color results were merged by one update pass: in
\* whole-tile mode every merging pass raises the revision, and it is 1
C10_Witness ==
    /\ ~tile.usePerLayerUpdates
    /\ Len(tile.colorLayers) = 2
    /\ tile.requests = <<>>
    /\ Installed \cap {0, -1} = {}
    /\ tile.geometryRevision = 1


\* C11: harvest turns every Canceled request of the collection into an Idle
\* one that is still in the collection and carries a new callback, not
\* cancelled; when harvest returns, no request of the collection is Canceled
\* or Completed.
C11_HarvestResetsCanceled ==
    LET W1 == serviceCompletedRequests(World) IN
    /\ \A i \in DOMAIN tile.requests :
         LET id == tile.requests[i] IN
         isCanceled(reqs[id]) =>
           /\ isIdle(W1.reqs[id])
           /\ \E j \in DOMAIN W1.tile.requests : W1.tile.requests[j] = id
           /\ W1.reqs[id].progress \notin DOMAIN mons
           /\ W1.reqs[id].progress \in DOMAIN W1.mons
           /\ W1.mons[W1.reqs[id].progress].request = id
           /\ ~W1.mons[W1.reqs[id].progress].canceled
    /\ \A j \in DOMAIN W1.tile.requests :
         /\ ~isCanceled(W1.reqs[W1.tile.requests[j]])
         /\ ~isCompleted(W1.reqs[W1.tile.requests[j]])

\* a harvest has met a Canceled request: the request is Idle, in the
\* collection, with a second callback that is not cancelled while its first
\* one is
C11_Witness ==
    \E i \in DOMAIN tile.requests :
      LET id == tile.requests[i] IN
      /\ isIdle(reqs[id])
      /\ WasReset(id)
      /\ ~mons[reqs[id].progress].canceled
      /\ \E m \in DOMAIN mons : mons[m].request = id /\ mons[m].canceled


\* the request's present callback is cancelled
CallbackCanceled(ms, rs, id) == ms[rs[id].progress].canceled

\* C12: the step that destroys the tile leaves every request that was in
\* its collection, in whatever state, with a cancelled callback; from then
\* on nothing of the tile changes and none of its requests becomes Completed.
C12_DestroyCancelsAll ==
    [][/\ (tile.alive /\ ~tile'.alive) =>
             \A i \in DOMAIN tile.requests :
               CallbackCanceled(mons', reqs', tile.requests[i])
       /\ ~tile.alive =>
             /\ tile' = tile
             /\ \A id \in DOMAIN reqs \ Freed :
                  /\ CallbackCanceled(mons, reqs, id)
                  /\ isCompleted(reqs'[id]) => isCompleted(reqs[id])
      ]_vars

\* the tile was destroyed in the first update cycle with one request
\* Completed and one in flight, and the worker's attempt has since ended
\* Canceled: at lag 0 only the destructor can have cancelled them
C12_Witness ==
    /\ ~tile.alive
    /\ stamp = 0
    /\ \E id \in DOMAIN reqs : isCanceled(reqs[id]) /\ CallbackCanceled(mons, reqs, id)
    /\ \E id \in DOMAIN reqs : isCompleted(reqs[id]) /\ CallbackCanceled(mons, reqs, id)


\* C13: on a tile with request servicing enabled, an update pass ends with
\* both per-layer dirty flags false, whatever they were when its last part
\* began; so the flags are false between passes, and a flag that a harvest
\* sets is set in the pass of that harvest only.
C13_FlagsClearedAtEndOfPass ==
    tile.useLayerRequests =>
      /\ LET W1 == traverse(World, "UPDATE") IN
         ~W1.tile.elevationLayerDirty /\ ~W1.tile.colorLayersDirty
      /\ \A e, c \in BOOLEAN :
           LET W1 == TraverseAfter([World EXCEPT !.tile.elevationLayerDirty = e,
                                                 !.tile.colorLayersDirty = c])
           IN ~W1.tile.elevationLayerDirty /\ ~W1.tile.colorLayersDirty
      /\ ~tile.elevationLayerDirty /\ ~tile.colorLayersDirty

\* a pass in per-layer mode has merged a color result, which set the color
\* flag, and no elevation result; the pass is over and both flags are false
C13_Witness ==
    /\ tile.useLayerRequests
    /\ tile.usePerLayerUpdates
    /\ \E i \in DOMAIN tile.colorLayers : tile.colorLayers[i] > 0
    /\ tile.geometryRevision = 0
    /\ ~tile.elevationLayerDirty /\ ~tile.colorLayersDirty


\* C14: the terrain's revision never decreases: whatever the threads that
\* call incrementRevision do, a read of getRevision after a step returns at
\* least what a read before the step returned.
C14_RevisionNeverDecreases ==
    [][getRevision([terrain |-> terrain']) >= getRevision([terrain |-> terrain])]_vars


\* the tile's layers and its three dirty flags
LayersAndFlags(t) ==
    <<t.elevationLayer, t.colorLayers, t.elevationLayerDirty,
      t.colorLayersDirty, t.dirty>>

\* C15: harvest of a Completed request with no result removes the request
\* from the collection and changes neither the tile's layers nor any of its
\* dirty flags; a harvest that finds no Completed request with a result
\* leaves layers and flags as they were.
C15_AbsentResultOnlyRemoves ==
    LET absent == {i \in DOMAIN tile.requests :
                     /\ isCompleted(reqs[tile.requests[i]])
                     /\ reqs[tile.requests[i]].result = 0}
        withResult == {i \in DOMAIN tile.requests :
                         /\ isCompleted(reqs[tile.requests[i]])
                         /\ reqs[tile.requests[i]].result # 0}
        W2 == serviceCompletedRequests(World)
    IN /\ \A i \in absent :
            LET W1 == HarvestCompleted(World, i) IN
            /\ W1.tile.requests = RemoveAt(tile.requests, i)
            /\ LayersAndFlags(W1.tile) = LayersAndFlags(tile)
            /\ \A j \in DOMAIN W2.tile.requests :
                 W2.tile.requests[j] # tile.requests[i]
       /\ (absent # {} /\ withResult = {}) =>
            LayersAndFlags(W2.tile) = LayersAndFlags(tile)

\* every request of a tile with an elevation request has completed with no
\* result and was harvested: the collection is empty, the layers are the
\* initial ones and the geometry revision was not raised
C15_Witness ==
    /\ tile.useLayerRequests
    /\ tile.requestsInstalled
    /\ tile.requests = <<>>
    /\ Len(reqs) = Len(tile.colorLayers) + 1
    /\ Freed = DOMAIN reqs
    /\ Installed = {-1}
    /\ tile.geometryRevision = 0
    /\ ~tile.dirty


\* C16: a terrain constructed with the environment variable not set is
\* configured for 8 threads; the step that constructs the task service gives
\* it the thread count configured at that moment; once a service exists, no
\* step (setNumTaskServiceThreads among them) changes its thread count,
\* replaces it or constructs another.
C16_ThreadCountFixedAtConstruction ==
    [][/\ \A factory \in BOOLEAN :
            NewVersionedTerrain(factory, <<>>).numTaskServiceThreads = 8
       /\ Len(services') > Len(services) =>
            /\ terrain.taskService = 0
            /\ Len(services') = 1
            /\ services'[1].numThreads = terrain.numTaskServiceThreads
       /\ terrain.taskService # 0 =>
            /\ terrain'.taskService = terrain.taskService
            /\ Len(services') = Len(services)
            /\ services'[terrain.taskService].numThreads
                  = services[terrain.taskService].numThreads
      ]_vars

\* setNumTaskServiceThreads was called after the service was constructed:
\* the service has the default 8 threads, the terrain is configured for 4
C16_Witness ==
    /\ terrain.taskService # 0
    /\ Len(services) = 1
    /\ services[terrain.taskService].numThreads = DefaultNumThreads
    /\ terrain.numTaskServiceThreads = DefaultNumThreads \div 2


\* C17: a step of a worker leaves the tile and the terrain as they are and
\* changes, of the requests, at most the state and the result of the one the
\* worker executes; the tile changes only in a servicePendingRequests or a
\* traverse of the consumer thread.
C17_WorkersWriteOwnRequestOnly ==
    [][/\ workers' # workers =>
            /\ tile' = tile
            /\ terrain' = terrain
            /\ Len(reqs') = Len(reqs)
            /\ \A id \in DOMAIN reqs :
                 reqs'[id] # reqs[id] =>
                   /\ \E w \in Workers : workers[w].request = id
                   /\ reqs'[id] = [reqs[id] EXCEPT !.state = reqs'[id].state,
                                                   !.result = reqs'[id].result]
       /\ tile' # tile =>
            /\ workers' = workers
            /\ \/ tile' = servicePendingRequests(World, stamp).tile
               \/ \E visitorType \in {"UPDATE", "CULL"} :
                    tile' = traverse(World, visitorType).tile
      ]_vars

\* a worker has completed a request with a payload that the consumer thread
\* has not harvested: the payload is in the request, not in the tile
C17_Witness ==
    \E i \in DOMAIN tile.requests :
      LET id == tile.requests[i] IN
      /\ isCompleted(reqs[id])
      /\ reqs[id].result > 0
      /\ reqs[id].result \notin Installed
      /\ tile.geometryRevision = 0


\* C18: in an update pass of a tile with request servicing enabled, after
\* the harvest: if the whole tile is dirty, both per-layer flags are set and
\* updateContent is not called; if not, updateContent is called exactly when
\* one of the two flags is set, once, with the two flags as they are.
C18_RebuildFollowsFlags ==
    tile.useLayerRequests =>
      LET H == serviceCompletedRequests(World)
          B == TraverseBefore(World)
          P == traverse(World, "UPDATE")
          e == H.tile.elevationLayerDirty
          c == H.tile.colorLayersDirty
      IN /\ H.tile.dirty =>
              /\ B.tile.elevationLayerDirty /\ B.tile.colorLayersDirty
              /\ P.updateContent = <<>>
         /\ ~H.tile.dirty =>
              /\ (P.updateContent # <<>>) <=> (e \/ c)
              /\ (e \/ c) => P.updateContent = << <<e, c>> >>
              /\ B.tile.elevationLayerDirty = e /\ B.tile.colorLayersDirty = c

\* after an earlier pass that merged the elevation result, a pass in
\* per-layer mode is about to harvest a color result and no elevation
\* result: the rebuild is called for the color layers only
C18_Witness ==
    /\ tile.useLayerRequests
    /\ tile.usePerLayerUpdates
    /\ tile.geometryRevision = 1
    /\ traverse(World, "UPDATE").updateContent = << <<FALSE, TRUE>> >>


\* what a traversal that does not service the requests must leave alone
LeftAlone(W) ==
    /\ W.tile.requests = tile.requests
    /\ W.reqs = reqs
    /\ W.mons = mons
    /\ W.tile.elevationLayer = tile.elevationLayer
    /\ W.tile.colorLayers = tile.colorLayers
    /\ W.tile.elevationLayerDirty = tile.elevationLayerDirty
    /\ W.tile.colorLayersDirty = tile.colorLayersDirty
    /\ W.tile.geometryRevision = tile.geometryRevision
    /\ W.updateContent = <<>>

\* C19: a traversal by a visitor that is not an update visitor, and any
\* traversal of a tile with request servicing disabled, harvests nothing:
\* the collection, the requests and their callbacks, the layers, both
\* per-layer dirty flags and the geometry revision are as before.
C19_NoServicingOutsideUpdate ==
    /\ LeftAlone(traverse(World, "CULL"))
    /\ ~tile.useLayerRequests =>
         \A visitorType \in {"UPDATE", "CULL"} : LeftAlone(traverse(World, visitorType))

\* a tile with request servicing disabled whose collection holds a Completed
\* request with a payload and a Canceled one: traversals have left them there
C19_Witness ==
    /\ ~tile.useLayerRequests
    /\ \E i \in DOMAIN tile.requests :
         isCompleted(reqs[tile.requests[i]]) /\ reqs[tile.requests[i]].result > 0
    /\ \E i \in DOMAIN tile.requests : isCanceled(reqs[tile.requests[i]])


\* C20: when servicePendingRequests runs on the tile in every update cycle
\* with the current stamp, the stamp of a request in flight is never more
\* than 2 behind the task service's, a poll of its callback does not cancel,
\* no callback is cancelled and no request is Canceled.
C20_ServicedRequestNotCancelled ==
    \A id \in DOMAIN reqs \ Freed :
      /\ ~isCanceled(reqs[id])
      /\ ~CallbackCanceled(mons, reqs, id)
      /\ reqs[id].state = "IN_PROGRESS" =>
           /\ stamp - reqs[id].stamp <= StaleThreshold
           /\ ~reportProgress(mons, reqs, stamp, reqs[id].progress).ret

\* in the last update cycle a worker is running a request that was created
\* in the first one and has been in flight since; the cycle has begun and
\* the tile is yet to be serviced in it
C20_Witness ==
    /\ stamp = MaxStamp
    /\ ~serviced
    /\ \E w \in Workers :
         /\ workers[w].pc = "running"
         /\ reqs[workers[w].request].state = "IN_PROGRESS"
         /\ Lag(workers[w].progress) = 1
         /\ ~mons[workers[w].progress].canceled


\* C21: under fair scheduling, on a tile with request servicing enabled,
\* the time comes after which the tile's collection is empty and every
\* request ever created was harvested as Completed and destroyed.
C21_EveryRequestHarvested ==
    <>[](tile.requests = <<>> /\ Freed = DOMAIN reqs)

\* the requests of a tile were all harvested as Completed, one of them
\* with a payload produced by a second attempt, after its first callback
\* was cancelled and the request reset and submitted again
C21_Witness ==
    /\ tile.useLayerRequests
    /\ tile.requests = <<>>
    /\ Len(reqs) = Len(tile.colorLayers) + 1
    /\ Freed = DOMAIN reqs
    /\ \E m \in DOMAIN mons : mons[m].canceled
    /\ \E m \in Installed :
         /\ m > 0
         /\ \E k \in DOMAIN mons :
              k < m /\ mons[k].request = mons[m].request /\ mons[k].canceled


\* the workers executing request id
Executing(id) ==
    {w \in Workers : workers[w].pc = "running" /\ workers[w].request = id}

C23_InstalledOnce ==
    [][/\ tile.requestsInstalled =>
            tile'.requestsInstalled /\ Len(reqs') = Len(reqs)
       /\ Len(reqs') > Len(reqs) =>
            /\ ~tile.requestsInstalled
            /\ terrain.layerFactory
            /\ tile' = servicePendingRequests(World, stamp).tile
       /\ Freed # {} => Len(reqs') = Len(reqs)
       /\ Len(reqs') <= 1 + Len(tile'.colorLayers)
       /\ ~terrain.layerFactory => Len(reqs') = 0
      ]_vars

\* in the last update cycle, after a harvest destroyed a completed request,
\* servicePendingRequests has run again: the tile still has created
\* 1 + MaxColorLayers requests in all
C23_Witness ==
    /\ tile.requestsInstalled
    /\ Freed # {}
    /\ serviced
    /\ stamp = MaxStamp
    /\ Len(tile.requests) < Len(reqs)
    /\ Len(reqs) = 1 + MaxColorLayers


\* positions of the collection whose request is Completed with a result
\* for a layer of the given kind
CompletedWithResult(kind) ==
    {i \in DOMAIN tile.requests :
        /\ reqs[tile.requests[i]].kind = kind
        /\ isCompleted(reqs[tile.requests[i]])
        /\ reqs[tile.requests[i]].result # 0}

\* C24: a step changes the geometry revision only if it is an update pass
\* of a tile with request servicing enabled, by exactly +1, and only if the
\* elevation flag is set when the base traversal has returned; an update
\* pass in per-layer mode that merges color results only, the whole tile
\* not being dirty, leaves the geometry revision as it is.
C24_GeometryRevisionSteps ==
    [][/\ tile'.geometryRevision # tile.geometryRevision =>
            /\ tile'.geometryRevision = tile.geometryRevision + 1
            /\ tile.useLayerRequests
            /\ tile' = traverse(World, "UPDATE").tile
            /\ BaseTraverse(TraverseBefore(World)).tile.elevationLayerDirty
       /\ (/\ tile.useLayerRequests
           /\ tile.usePerLayerUpdates
           /\ ~tile.dirty
           /\ CompletedWithResult("elev") = {}) =>
            traverse(World, "UPDATE").tile.geometryRevision = tile.geometryRevision
      ]_vars

\* in per-layer mode an update pass has merged a color result while the
\* elevation request is still outstanding: the geometry revision is still 0
C24_Witness ==
    /\ tile.useLayerRequests
    /\ tile.usePerLayerUpdates
    /\ \E i \in DOMAIN tile.colorLayers : tile.colorLayers[i] > 0
    /\ RequestsFor("elev", -1) # {}
    /\ tile.elevationLayer = -1
    /\ tile.geometryRevision = 0


\* C25: in whole-tile mode, an update pass whose harvest merges a color
\* result and no elevation result makes the whole tile dirty, which sets
\* the elevation flag, and raises the geometry revision by exactly 1.
C25_WholeTileColorMergeBumps ==
    (/\ tile.useLayerRequests
     /\ ~tile.usePerLayerUpdates
     /\ CompletedWithResult("color") # {}
     /\ CompletedWithResult("elev") = {})
    => /\ serviceCompletedRequests(World).tile.dirty
       /\ ~serviceCompletedRequests(World).tile.elevationLayerDirty
       /\ TraverseBefore(World).tile.elevationLayerDirty
       /\ traverse(World, "UPDATE").tile.geometryRevision = tile.geometryRevision + 1

\* in whole-tile mode an update pass has merged a color result while the
\* elevation request is still outstanding: the geometry revision is 1
C25_Witness ==
    /\ tile.useLayerRequests
    /\ ~tile.usePerLayerUpdates
    /\ \E i \in DOMAIN tile.colorLayers : tile.colorLayers[i] > 0
    /\ RequestsFor("elev", -1) # {}
    /\ tile.elevationLayer = -1
    /\ tile.geometryRevision = 1

=============================================================================
